---- MODULE Spec2Model ----
(***************************************************************************)
(* Readverse API (src/main.py, src/schemas.py) as a state machine.         *)
(*                                                                         *)
(* State: the document database (one sequence of documents per existing    *)
(* collection, in natural = insertion order), the database's identifier    *)
(* generator and clock, the state of the process's database handle, and an *)
(* observation of the last request handled: the request, its HTTP          *)
(* response, the storage calls it made, and the documents the handler      *)
(* fetched as they are when the handler returns.                           *)
(*                                                                         *)
(* Every handler makes at most one storage call, and MongoDB applies a     *)
(* single-document call atomically, so one action per handler also covers  *)
(* every interleaving of concurrent requests.                              *)
(*                                                                         *)
(* Values are tagged records [t |-> type, v |-> payload].  The JSON values *)
(* of a request body are null, integers, strings and lists of strings.  A  *)
(* Python str that the code inspects character by character (identifiers,  *)
(* titles, search patterns, numerals, dates, ISO-8601 text) is a sequence  *)
(* of one-character strings, a character outside ASCII being written by    *)
(* its code point ("U+2705"); a str that is only stored and compared is a  *)
(* TLA+ string.                                                            *)
(***************************************************************************)
EXTENDS Integers, Sequences, FiniteSets, TLC

VARIABLES db, nextId, now, connection, req, resp, calls, fetched

vars == <<db, nextId, now, connection, req, resp, calls, fetched>>

\* ------------------------------------------------------------------ bounds

\* Number of documents the requests of one run may create.
MaxDocs == 2

\* ------------------------------------------------------------------ values

VNone == [t |-> "none", v |-> 0]
VInt(n) == [t |-> "int", v |-> n]
VStr(s) == [t |-> "str", v |-> s]
VList(l) == [t |-> "list", v |-> l]
VDateTime(n) == [t |-> "datetime", v |-> n]
\* datetime.date(y, m, d)
VDate(y, m, d) == [t |-> "date", v |-> <<y, m, d>>]

HexChars == <<"0", "1", "2", "3", "4", "5", "6", "7", "8", "9",
              "a", "b", "c", "d", "e", "f">>
DecChars == <<"0", "1", "2", "3", "4", "5", "6", "7", "8", "9">>

\* str.lower() and str.upper() on the ASCII letters.
LowerOf ==
    ("A" :> "a") @@ ("B" :> "b") @@ ("C" :> "c") @@ ("D" :> "d") @@ ("E" :> "e") @@
    ("F" :> "f") @@ ("G" :> "g") @@ ("H" :> "h") @@ ("I" :> "i") @@ ("J" :> "j") @@
    ("K" :> "k") @@ ("L" :> "l") @@ ("M" :> "m") @@ ("N" :> "n") @@ ("O" :> "o") @@
    ("P" :> "p") @@ ("Q" :> "q") @@ ("R" :> "r") @@ ("S" :> "s") @@ ("T" :> "t") @@
    ("U" :> "u") @@ ("V" :> "v") @@ ("W" :> "w") @@ ("X" :> "x") @@ ("Y" :> "y") @@
    ("Z" :> "z")
UpperOf ==
    ("a" :> "A") @@ ("b" :> "B") @@ ("c" :> "C") @@ ("d" :> "D") @@ ("e" :> "E") @@
    ("f" :> "F") @@ ("g" :> "G") @@ ("h" :> "H") @@ ("i" :> "I") @@ ("j" :> "J") @@
    ("k" :> "K") @@ ("l" :> "L") @@ ("m" :> "M") @@ ("n" :> "N") @@ ("o" :> "O") @@
    ("p" :> "P") @@ ("q" :> "Q") @@ ("r" :> "R") @@ ("s" :> "S") @@ ("t" :> "T") @@
    ("u" :> "U") @@ ("v" :> "V") @@ ("w" :> "W") @@ ("x" :> "X") @@ ("y" :> "Y") @@
    ("z" :> "Z")

ToLower(c) == IF c \in DOMAIN LowerOf THEN LowerOf[c] ELSE c
ToUpper(c) == IF c \in DOMAIN UpperOf THEN UpperOf[c] ELSE c

LowerText(s) == [i \in 1..Len(s) |-> ToLower(s[i])]
UpperText(s) == [i \in 1..Len(s) |-> ToUpper(s[i])]

\* The value of a decimal digit.
DecValue ==
    ("0" :> 0) @@ ("1" :> 1) @@ ("2" :> 2) @@ ("3" :> 3) @@ ("4" :> 4) @@ ("5" :> 5) @@
    ("6" :> 6) @@ ("7" :> 7) @@ ("8" :> 8) @@ ("9" :> 9)

IsDecChar(c) == c \in DOMAIN DecValue

RECURSIVE DecUpTo(_, _)
DecUpTo(s, i) == IF i = 0 THEN 0 ELSE 10 * DecUpTo(s, i - 1) + DecValue[s[i]]

\* The number a run of decimal digits writes.
DecNumber(s) == DecUpTo(s, Len(s))

RECURSIVE DecText(_, _)
\* The w decimal digits of n, zero padded.
DecText(n, w) ==
    IF w = 0 THEN <<>>
    ELSE Append(DecText(n \div 10, w - 1), DecChars[(n % 10) + 1])

\* The six ASCII whitespace characters, which bytes.fromhex skips; the
\* vertical tab is written by its code point.
Whitespace == {" ", "\t", "\n", "U+000B", "\f", "\r"}

\* The characters of the Unicode White_Space property, which str::trim of
\* pydantic-core strips; those outside ASCII are written by their code
\* points.
UnicodeWhitespace ==
    Whitespace \cup
    {"U+0085", "U+00A0", "U+1680", "U+2000", "U+2001", "U+2002", "U+2003",
     "U+2004", "U+2005", "U+2006", "U+2007", "U+2008", "U+2009", "U+200A",
     "U+2028", "U+2029", "U+202F", "U+205F", "U+3000"}

RECURSIVE TrimStart(_)
TrimStart(s) ==
    IF Len(s) > 0 /\ s[1] \in UnicodeWhitespace THEN TrimStart(Tail(s)) ELSE s

RECURSIVE TrimEnd(_)
TrimEnd(s) ==
    IF Len(s) > 0 /\ s[Len(s)] \in UnicodeWhitespace
    THEN TrimEnd(SubSeq(s, 1, Len(s) - 1)) ELSE s

\* str::trim: s without the whitespace at its ends.
Trim(s) == TrimEnd(TrimStart(s))

\* bson.ObjectId: 12 bytes, written as 24 hexadecimal characters.
OidHexLen == 24

\* An ObjectId holding the bytes bson made of its text: `size` bytes that
\* write the number v.
VOidOf(n, size) == [t |-> "oid", v |-> n, size |-> size]

\* The ObjectId of the 12 bytes that write n.
VOid(n) == VOidOf(n, OidHexLen \div 2)

\* The value of a hexadecimal digit, in either case.
HexValue ==
    ("0" :> 0) @@ ("1" :> 1) @@ ("2" :> 2) @@ ("3" :> 3) @@ ("4" :> 4) @@ ("5" :> 5) @@
    ("6" :> 6) @@ ("7" :> 7) @@ ("8" :> 8) @@ ("9" :> 9) @@ ("a" :> 10) @@ ("b" :> 11) @@
    ("c" :> 12) @@ ("d" :> 13) @@ ("e" :> 14) @@ ("f" :> 15) @@ ("A" :> 10) @@
    ("B" :> 11) @@ ("C" :> 12) @@ ("D" :> 13) @@ ("E" :> 14) @@ ("F" :> 15)

IsHexChar(c) == c \in DOMAIN HexValue

RECURSIVE HexText(_, _)
\* str(ObjectId): the w lowercase hexadecimal digits of n.
HexText(n, w) ==
    IF w = 0 THEN <<>>
    ELSE Append(HexText(n \div 16, w - 1), HexChars[(n % 16) + 1])

RECURSIVE HexUpTo(_, _)
HexUpTo(s, i) == IF i = 0 THEN 0 ELSE 16 * HexUpTo(s, i - 1) + HexValue[s[i]]

\* bytes.fromhex: the number a run of hexadecimal digits writes.
HexNumber(s) == HexUpTo(s, Len(s))

RECURSIVE FromHexAt(_, _)
\* bytes.fromhex(s) from position i on: every byte is two adjacent
\* hexadecimal digits, and whitespace before a byte is skipped.
FromHexAt(s, i) ==
    IF i > Len(s) THEN [ok |-> TRUE, digits |-> <<>>]
    ELSE IF s[i] \in Whitespace THEN FromHexAt(s, i + 1)
    ELSE IF i < Len(s) /\ IsHexChar(s[i]) /\ IsHexChar(s[i + 1])
    THEN LET rest == FromHexAt(s, i + 2)
         IN [ok |-> rest.ok, digits |-> <<s[i], s[i + 1]>> \o rest.digits]
    ELSE [ok |-> FALSE, digits |-> <<>>]

\* ObjectId(id_str) accepts the 24-character strings that bytes.fromhex
\* reads: 24 hexadecimal digits, or fewer with whitespace between bytes.
ObjectIdValid(s) == Len(s) = OidHexLen /\ FromHexAt(s, 1).ok

\* ObjectId(id_str) for an accepted id_str.
ObjectId(s) ==
    LET digits == FromHexAt(s, 1).digits
    IN VOidOf(HexNumber(digits), Len(digits) \div 2)

\* date.isoformat(): YYYY-MM-DD.
DateIsoFormat(ymd) ==
    DecText(ymd[1], 4) \o <<"-">> \o DecText(ymd[2], 2) \o <<"-">> \o DecText(ymd[3], 2)

IsLeapYear(y) == y % 4 = 0 /\ (y % 100 # 0 \/ y % 400 = 0)

DaysInMonth(y, m) ==
    IF m = 2 THEN (IF IsLeapYear(y) THEN 29 ELSE 28)
    ELSE IF m \in {4, 6, 9, 11} THEN 30 ELSE 31

RECURSIVE DateAfter(_, _)
\* The date k days after the date ymd.
DateAfter(ymd, k) ==
    LET left == DaysInMonth(ymd[1], ymd[2]) - ymd[3]
    IN IF k <= left THEN <<ymd[1], ymd[2], ymd[3] + k>>
       ELSE DateAfter(IF ymd[2] = 12 THEN <<ymd[1] + 1, 1, 1>>
                      ELSE <<ymd[1], ymd[2] + 1, 1>>,
                      k - left - 1)

\* datetime.isoformat() of the instant n seconds after 2024-01-01T00:00:00.
IsoFormat(n) ==
    DateIsoFormat(DateAfter(<<2024, 1, 1>>, n \div 86400)) \o <<"T">>
        \o DecText((n \div 3600) % 24, 2) \o <<":">>
        \o DecText((n \div 60) % 60, 2) \o <<":">> \o DecText(n % 60, 2)

\* str(x) for the values the code applies it to.
PyStr(x) == IF x.t = "oid" THEN VStr(HexText(x.v, 2 * x.size)) ELSE x

\* hasattr(v, "isoformat")
HasIsoFormat(x) == x.t \in {"datetime", "date"}

\* v.isoformat()
isoformat(x) == IF x.t = "date" THEN DateIsoFormat(x.v) ELSE IsoFormat(x.v)


\* ------------------------------------------------------------------ helpers

\* The dictionary d without key k (dict.pop).
Without(d, k) == [f \in (DOMAIN d) \ {k} |-> d[f]]

\* The argument of to_public once the call has returned: d = dict(doc) makes
\* the pops and assignments act on a copy, so the caller's document is as it was.
to_public_arg(doc) == doc

\* d["id"] = str(d["_id"]): the key read, not popped.
CopyId(doc) ==
    IF "_id" \in DOMAIN doc /\ doc["_id"].t # "none"
    THEN ("id" :> PyStr(doc["_id"])) @@ doc
    ELSE doc

\* d["id"] = str(d.pop("_id")) when the document has a non-null _id.
RenameId(doc) ==
    IF "_id" \in DOMAIN doc /\ doc["_id"].t # "none"
    THEN ("id" :> PyStr(doc["_id"])) @@ Without(doc, "_id")
    ELSE doc

\* Every value with an isoformat attribute is replaced by its ISO-8601 text.
IsoValues(d) ==
    [k \in DOMAIN d |-> IF HasIsoFormat(d[k]) THEN VStr(isoformat(d[k])) ELSE d[k]]

to_public(doc) ==
    IF DOMAIN doc = {} THEN doc ELSE IsoValues(RenameId(doc))

\* oid(id_str): the ObjectId, or HTTP 400 "Invalid id".
oid(id_str) ==
    IF ObjectIdValid(id_str)
    THEN [ok |-> TRUE, value |-> ObjectId(id_str)]
    ELSE [ok |-> FALSE, value |-> VNone]

\* ------------------------------------------------------------------ schemas

\* One field of a pydantic model: its type, whether None is accepted
\* (Optional[...]), whether it must be given (Field(...)), the default
\* otherwise, and the ge / le bounds (VNone: no bound).
Required(name, type) ==
    [name |-> name, type |-> type, optional |-> FALSE, required |-> TRUE,
     default |-> VNone, ge |-> VNone, le |-> VNone]
Optional(name, type) ==
    [name |-> name, type |-> type, optional |-> TRUE, required |-> FALSE,
     default |-> VNone, ge |-> VNone, le |-> VNone]
Default(name, type, value) ==
    [name |-> name, type |-> type, optional |-> FALSE, required |-> FALSE,
     default |-> value, ge |-> VNone, le |-> VNone]
Ge(field, n) == [field EXCEPT !.ge = VInt(n)]
Le(field, n) == [field EXCEPT !.le = VInt(n)]

User ==
    {Required("handle", "str"), Required("email", "str"),
     Optional("avatar_url", "str"), Optional("bio", "str"),
     Default("favorite_genres", "list", VList(<<>>))}

Book ==
    {Required("title", "str"), Required("creator", "str"), Required("kind", "str"),
     Optional("cover_url", "str"), Optional("description", "str"),
     Default("genres", "list", VList(<<>>)), Default("moods", "list", VList(<<>>)),
     Ge(Optional("total_pages", "int"), 1),
     Default("tags", "list", VList(<<>>))}

Shelf ==
    {Required("user_id", "str"), Required("name", "str"),
     Optional("description", "str"),
     Default("book_ids", "list", VList(<<>>))}

ReadingProgress ==
    {Required("user_id", "str"), Required("book_id", "str"),
     Ge(Default("current_page", "int", VInt(0)), 0),
     Ge(Optional("total_pages", "int"), 1),
     Optional("started_on", "date"), Optional("finished_on", "date"),
     Default("status", "str", VStr("reading"))}

\* rating: int = Field(...), its bounds left out.
ReviewUnbounded ==
    {Required("user_id", "str"), Required("book_id", "str"),
     Required("rating", "int"),
     Optional("title", "str"), Optional("body", "str")}

Review ==
    {Required("user_id", "str"), Required("book_id", "str"),
     Le(Ge(Required("rating", "int"), 1), 5),
     Optional("title", "str"), Optional("body", "str")}

Quote ==
    {Required("user_id", "str"), Required("book_id", "str"), Required("text", "str"),
     Ge(Optional("page", "int"), 1)}

Club ==
    {Required("name", "str"), Optional("description", "str"),
     Required("owner_id", "str"),
     Default("member_ids", "list", VList(<<>>))}

Post ==
    {Required("club_id", "str"), Required("user_id", "str"), Required("content", "str")}

BookUpdate ==
    {Optional("title", "str"), Optional("creator", "str"), Optional("kind", "str"),
     Optional("cover_url", "str"), Optional("description", "str"),
     Optional("genres", "list"), Optional("moods", "list"),
     Optional("total_pages", "int"), Optional("tags", "list")}

\* The update payload with the creation schema's bounds.
ProgressUpdateBounded ==
    {Ge(Optional("current_page", "int"), 0), Optional("status", "str"),
     Ge(Optional("total_pages", "int"), 1)}

ProgressUpdate ==
    {Optional("current_page", "int"), Optional("status", "str"),
     Optional("total_pages", "int")}

\* A leading plus sign is dropped.
StripPlus(s) == IF Len(s) > 0 /\ s[1] = "+" THEN Tail(s) ELSE s

\* strip_leading_zeros of pydantic-core: a text that starts with a digit
\* 1..9 or a minus sign is kept; one that starts with zeros loses them when
\* a digit 1..9 or a minus sign follows, and is "0" when nothing follows;
\* any other text is refused.
StripLeadingZeros(s) ==
    IF Len(s) = 0 THEN [ok |-> FALSE, rest |-> <<>>]
    ELSE IF s[1] # "0"
    THEN [ok |-> s[1] = "-" \/ IsDecChar(s[1]), rest |-> s]
    ELSE LET others == {i \in 2..Len(s) : s[i] # "0"}
         IN IF others = {} THEN [ok |-> TRUE, rest |-> <<"0">>]
            ELSE LET i == CHOOSE k \in others : \A j \in others : k <= j
                 IN [ok |-> s[i] = "-" \/ IsDecChar(s[i]),
                     rest |-> SubSeq(s, i, Len(s))]

\* The first reading, of the text as it is: an optional sign and decimal
\* digits, leading zeros allowed ("-01" is -1, "+06" is 6, "007" is 7).
ParseDirect(s) ==
    LET signed == Len(s) > 0 /\ s[1] \in {"+", "-"}
        digits == IF signed THEN Tail(s) ELSE s
        ok == Len(digits) > 0 /\ \A i \in 1..Len(digits) : IsDecChar(digits[i])
    IN [ok |-> ok,
        v |-> IF ~ok THEN 0
              ELSE IF signed /\ s[1] = "-" THEN 0 - DecNumber(digits)
              ELSE DecNumber(digits)]

\* The second reading, of the text left once leading zeros are dropped: an
\* optional minus sign, then either the digit 0 alone or digits that start
\* with 1..9 ("-1" is -1, "-01" is refused).
ParseCleaned(s) ==
    LET minus == Len(s) > 0 /\ s[1] = "-"
        digits == IF minus THEN Tail(s) ELSE s
        ok == /\ Len(digits) > 0
              /\ \A i \in 1..Len(digits) : IsDecChar(digits[i])
              /\ Len(digits) = 1 \/ digits[1] # "0"
    IN [ok |-> ok,
        v |-> IF ~ok THEN 0
              ELSE IF minus THEN 0 - DecNumber(digits)
              ELSE DecNumber(digits)]

\* A str given for an int field (pydantic, lax mode): the whitespace at its
\* ends is dropped and the text is read as it is; when that fails, a leading
\* plus sign and leading zeros are dropped and the rest is read again ("0-1"
\* is -1, "0-01" is refused).
IntText(s) ==
    LET t == Trim(s)
        direct == ParseDirect(t)
        z == StripLeadingZeros(StripPlus(t))
    IN IF direct.ok THEN direct
       ELSE IF z.ok THEN ParseCleaned(z.rest)
       ELSE [ok |-> FALSE, v |-> 0]

\* A str shaped as a calendar date: ten characters, dashes after the year
\* and after the month.
DateShaped(s) == Len(s) = 10 /\ s[5] = "-" /\ s[8] = "-"

\* A str given for a date field (pydantic, lax mode): YYYY-MM-DD naming a
\* day of the calendar is read as that date.
DateText(s) ==
    LET digits == /\ DateShaped(s)
                  /\ \A i \in (1..10) \ {5, 8} : IsDecChar(s[i])
        y == DecNumber(SubSeq(s, 1, 4))
        m == DecNumber(SubSeq(s, 6, 7))
        d == DecNumber(SubSeq(s, 9, 10))
        ok == digits /\ y >= 1 /\ m \in 1..12 /\ d >= 1 /\ d <= DaysInMonth(y, m)
    IN [ok |-> ok, v |-> IF ok THEN <<y, m, d>> ELSE <<>>]

\* The characters of a numeral that pydantic reads or refuses depending on
\* its version (a decimal point before zeros, an underscore between
\* digits).
NumeralUnread == {".", "_"}

\* A numeral with a minus sign after its plus sign ("+-1", "+0-1"), which
\* pydantic reads or refuses depending on its version.
SignAfterPlus(s) ==
    LET t == Trim(s)
        z == StripLeadingZeros(StripPlus(t))
    IN Len(t) > 0 /\ t[1] = "+" /\ z.ok /\ z.rest[1] = "-"

\* The request bodies described here: a str given for an int field has no
\* character of NumeralUnread and no sign after a plus sign, and a value
\* given for a date field is null, a
\* list, or a str shaped as a calendar date (numbers and strings that
\* pydantic reads as Unix times or as date-times at midnight are not).
WithinInputs(schema, body) ==
    \A f \in schema :
        f.name \in DOMAIN body =>
            LET x == body[f.name]
            IN /\ (f.type = "int" /\ x.t = "str")
                    => /\ \A i \in 1..Len(x.v) : x.v[i] \notin NumeralUnread
                       /\ ~SignAfterPlus(x.v)
               /\ f.type = "date"
                    => \/ x.t \in {"none", "list"}
                       \/ x.t = "str" /\ DateShaped(x.v)

\* The value field f holds once value x has been validated for it.
Coerce(f, x) ==
    IF x.t = "str" /\ f.type = "int" THEN VInt(IntText(x.v).v)
    ELSE IF x.t = "str" /\ f.type = "date"
    THEN LET ymd == DateText(x.v).v IN VDate(ymd[1], ymd[2], ymd[3])
    ELSE x

\* Whether value x is accepted for field f.
FieldAccepts(f, x) ==
    IF x.t = "none" THEN f.optional
    ELSE IF f.type = "int"
    THEN /\ x.t \in {"int", "str"}
         /\ x.t = "str" => IntText(x.v).ok
         /\ f.ge.t = "int" => Coerce(f, x).v >= f.ge.v
         /\ f.le.t = "int" => Coerce(f, x).v <= f.le.v
    ELSE IF f.type = "date"
    THEN x.t = "str" /\ DateText(x.v).ok
    ELSE x.t = f.type

\* Request body `body` (a JSON object: field name -> value) passes the schema.
Valid(schema, body) ==
    \A f \in schema :
        IF f.name \in DOMAIN body THEN FieldAccepts(f, body[f.name]) ELSE ~f.required

\* The validated model: the schema's fields with the values read from the
\* body, defaults filled in, unknown fields of the body dropped.
Parse(schema, body) ==
    [n \in {f.name : f \in schema} |->
        LET f == CHOOSE g \in schema : g.name = n
        IN IF n \in DOMAIN body THEN Coerce(f, body[n]) ELSE f.default]

\* model_dump(): every field of the model.
model_dump(model) == model

\* exclude_none left out: every field, None or not.
exclude_nothing(model) == model

\* model_dump(exclude_none=True): the fields that are not None.
exclude_none(model) ==
    [n \in {k \in DOMAIN model : model[k].t # "none"} |-> model[n]]


\* ------------------------------------------------------------------ database

\* The documents of collection c; a collection exists once a document has
\* been inserted into it.
Coll(c) == IF c \in DOMAIN db THEN db[c] ELSE <<>>

\* The database with collection c holding docs.
WithColl(c, docs) == [k \in (DOMAIN db) \cup {c} |-> IF k = c THEN docs ELSE db[k]]

Eq(x) == [op |-> "eq", v |-> x]
Regex(pattern) == [op |-> "regex", v |-> pattern]

\* The letters outside ASCII whose case option i folds here, written by
\* their code points: the capital letters of Latin-1 and of the basic
\* Cyrillic alphabet with their small letters, the Kelvin sign with k and
\* the long s with s.
FoldOf ==
    ("U+00C0" :> "U+00E0") @@ ("U+00C1" :> "U+00E1") @@ ("U+00C2" :> "U+00E2") @@
    ("U+00C3" :> "U+00E3") @@ ("U+00C4" :> "U+00E4") @@ ("U+00C5" :> "U+00E5") @@
    ("U+00C6" :> "U+00E6") @@ ("U+00C7" :> "U+00E7") @@ ("U+00C8" :> "U+00E8") @@
    ("U+00C9" :> "U+00E9") @@ ("U+00CA" :> "U+00EA") @@ ("U+00CB" :> "U+00EB") @@
    ("U+00CC" :> "U+00EC") @@ ("U+00CD" :> "U+00ED") @@ ("U+00CE" :> "U+00EE") @@
    ("U+00CF" :> "U+00EF") @@ ("U+00D0" :> "U+00F0") @@ ("U+00D1" :> "U+00F1") @@
    ("U+00D2" :> "U+00F2") @@ ("U+00D3" :> "U+00F3") @@ ("U+00D4" :> "U+00F4") @@
    ("U+00D5" :> "U+00F5") @@ ("U+00D6" :> "U+00F6") @@ ("U+00D8" :> "U+00F8") @@
    ("U+00D9" :> "U+00F9") @@ ("U+00DA" :> "U+00FA") @@ ("U+00DB" :> "U+00FB") @@
    ("U+00DC" :> "U+00FC") @@ ("U+00DD" :> "U+00FD") @@ ("U+00DE" :> "U+00FE") @@
    ("U+0410" :> "U+0430") @@ ("U+0411" :> "U+0431") @@ ("U+0412" :> "U+0432") @@
    ("U+0413" :> "U+0433") @@ ("U+0414" :> "U+0434") @@ ("U+0415" :> "U+0435") @@
    ("U+0416" :> "U+0436") @@ ("U+0417" :> "U+0437") @@ ("U+0418" :> "U+0438") @@
    ("U+0419" :> "U+0439") @@ ("U+041A" :> "U+043A") @@ ("U+041B" :> "U+043B") @@
    ("U+041C" :> "U+043C") @@ ("U+041D" :> "U+043D") @@ ("U+041E" :> "U+043E") @@
    ("U+041F" :> "U+043F") @@ ("U+0420" :> "U+0440") @@ ("U+0421" :> "U+0441") @@
    ("U+0422" :> "U+0442") @@ ("U+0423" :> "U+0443") @@ ("U+0424" :> "U+0444") @@
    ("U+0425" :> "U+0445") @@ ("U+0426" :> "U+0446") @@ ("U+0427" :> "U+0447") @@
    ("U+0428" :> "U+0448") @@ ("U+0429" :> "U+0449") @@ ("U+042A" :> "U+044A") @@
    ("U+042B" :> "U+044B") @@ ("U+042C" :> "U+044C") @@ ("U+042D" :> "U+044D") @@
    ("U+042E" :> "U+044E") @@ ("U+042F" :> "U+044F") @@ ("U+212A" :> "k") @@
    ("U+017F" :> "s")

\* The case folding of option i: a letter and its other case fold to the
\* same character.
CaseFold(c) ==
    IF c \in DOMAIN LowerOf THEN LowerOf[c]
    ELSE IF c \in DOMAIN FoldOf THEN FoldOf[c]
    ELSE c

FoldText(s) == [i \in 1..Len(s) |-> CaseFold(s[i])]

\* The characters whose folding is described here: ASCII (the grave accent
\* written by its code point), and the letters of FoldOf in both cases.
FoldKnown ==
    DOMAIN LowerOf \cup DOMAIN UpperOf \cup DOMAIN DecValue \cup Whitespace
    \cup {"!", "\"", "#", "$", "%", "&", "'", "(", ")", "*", "+", ",", "-", ".",
          "/", ":", ";", "<", "=", ">", "?", "@", "[", "\\", "]", "^", "_", "U+0060",
          "{", "|", "}", "~"}
    \cup DOMAIN FoldOf \cup {FoldOf[c] : c \in DOMAIN FoldOf}

\* The texts described here hold only characters of FoldKnown.
FoldWithinInputs(s) == \A i \in 1..Len(s) : s[i] \in FoldKnown

\* The characters that make quantifiers, classes, counts and escapes in a
\* regular expression; the patterns described here have none of them.
PatternUnread == {"*", "+", "?", "[", "]", "{", "}", "\\"}

PatternWithinInputs(p) ==
    FoldWithinInputs(p) /\ \A i \in 1..Len(p) : p[i] \notin PatternUnread

\* Parentheses opened and not closed in p[lo..k-1].
Depth(p, lo, k) ==
    Cardinality({i \in lo..(k - 1) : p[i] = "("})
        - Cardinality({i \in lo..(k - 1) : p[i] = ")"})

\* The pattern compiles: its parentheses pair up.
PatternValid(p) ==
    /\ \A k \in 1..Len(p) : Depth(p, 1, k + 1) >= 0
    /\ Depth(p, 1, Len(p) + 1) = 0

\* The positions of `text` reached from the positions S by one pattern
\* character c: ^ holds at the start, $ at the end or before a final
\* newline, . takes any character but a newline, any other character
\* takes itself.
PatternStep(c, text, S) ==
    IF c = "^" THEN {i \in S : i = 0}
    ELSE IF c = "$"
    THEN {i \in S : i = Len(text) \/ (i = Len(text) - 1 /\ text[Len(text)] = "\n")}
    ELSE IF c = "."
    THEN {i + 1 : i \in {j \in S : j < Len(text) /\ text[j + 1] # "\n"}}
    ELSE {i + 1 : i \in {j \in S : j < Len(text) /\ text[j + 1] = c}}

RECURSIVE BranchesEnd(_, _, _, _, _)
RECURSIVE BranchEnd(_, _, _, _, _)
\* The positions reached from S by p[lo..hi], an alternation of branches.
BranchesEnd(p, lo, hi, text, S) ==
    LET bars == {k \in lo..hi : p[k] = "|" /\ Depth(p, lo, k) = 0}
    IN IF bars = {} THEN BranchEnd(p, lo, hi, text, S)
       ELSE LET k == CHOOSE b \in bars : \A c \in bars : b <= c
            IN BranchEnd(p, lo, k - 1, text, S)
                   \cup BranchesEnd(p, k + 1, hi, text, S)

\* The positions reached from S by p[lo..hi], a sequence of characters and
\* parenthesized groups.
BranchEnd(p, lo, hi, text, S) ==
    IF lo > hi THEN S
    ELSE IF p[lo] = "("
    THEN LET close == CHOOSE k \in (lo + 1)..hi :
                          /\ p[k] = ")" /\ Depth(p, lo, k + 1) = 0
                          /\ \A j \in (lo + 1)..(k - 1) :
                                 ~(p[j] = ")" /\ Depth(p, lo, j + 1) = 0)
         IN BranchEnd(p, close + 1, hi, text,
                      BranchesEnd(p, lo + 1, close - 1, text, S))
    ELSE BranchEnd(p, lo + 1, hi, text, PatternStep(p[lo], text, S))

\* {"$regex": p, "$options": "i"}: the pattern is found somewhere in the
\* text, letters matching in either case.
RegexSearch(p, text) ==
    BranchesEnd(FoldText(p), 1, Len(p), FoldText(text), 0..Len(text)) # {}

\* The server compiles every pattern of a filter before it looks at a
\* document.
FilterValid(filt) ==
    \A k \in DOMAIN filt : filt[k].op = "regex" => PatternValid(filt[k].v)

\* A MongoDB filter document: every condition holds.  Equality against an
\* array field holds when the array has the value as an element.
Matches(doc, filt) ==
    \A k \in DOMAIN filt :
        /\ k \in DOMAIN doc
        /\ IF filt[k].op = "regex"
           THEN doc[k].t = "str" /\ RegexSearch(filt[k].v, doc[k].v)
           ELSE \/ doc[k] = filt[k].v
                \/ /\ doc[k].t = "list"
                   /\ filt[k].v.t = "str"
                   /\ \E i \in 1..Len(doc[k].v) : doc[k].v[i] = filt[k].v.v

NoFilter == <<>>

\* cursor.limit(n): the first n documents; 0 means no limit.
Limit(docs, n) == IF n = 0 \/ Len(docs) <= n THEN docs ELSE SubSeq(docs, 1, n)

\* collection.find(filt), in natural order.
find(c, filt) == SelectSeq(Coll(c), LAMBDA d : Matches(d, filt))

\* Index in Coll(c) of the first document matching filt, 0 if none.
FirstMatch(c, filt) ==
    IF \E i \in 1..Len(Coll(c)) : Matches(Coll(c)[i], filt)
    THEN CHOOSE i \in 1..Len(Coll(c)) :
            /\ Matches(Coll(c)[i], filt)
            /\ \A j \in 1..(i - 1) : ~Matches(Coll(c)[j], filt)
    ELSE 0

Set(fields) == [op |-> "$set", fields |-> fields]
AddToSet(field, value) == [op |-> "$addToSet", field |-> field, value |-> value]

\* A replacement instead of $set: the given fields and the identifier only.
replace_fields(doc, fields) == fields @@ ("_id" :> doc["_id"])

\* $set: the given fields take the given values, the others stay.
apply_set(doc, fields) == fields @@ doc

\* $addToSet: the value is appended unless the array already has it.
apply_add_to_set(doc, field, value) ==
    IF field \notin DOMAIN doc THEN (field :> VList(<<value>>)) @@ doc
    ELSE IF \E i \in 1..Len(doc[field].v) : doc[field].v[i] = value THEN doc
    ELSE [doc EXCEPT ![field] = VList(Append(doc[field].v, value))]

ApplyUpdate(doc, upd) ==
    IF upd.op = "$set" THEN apply_set(doc, upd.fields)
    ELSE apply_add_to_set(doc, upd.field, upd.value)

\* collection.update_one(filt, upd): the first matching document is updated.
update_one(c, filt, upd) ==
    LET i == FirstMatch(c, filt) IN
    IF i = 0 THEN [matched_count |-> 0, modified_count |-> 0, db |-> db]
    ELSE LET new == ApplyUpdate(Coll(c)[i], upd) IN
         [matched_count |-> 1,
          modified_count |-> IF new = Coll(c)[i] THEN 0 ELSE 1,
          db |-> WithColl(c, [Coll(c) EXCEPT ![i] = new])]

\* collection.delete_one(filt): the first matching document is removed.
delete_one(c, filt) ==
    LET i == FirstMatch(c, filt) IN
    IF i = 0 THEN [deleted_count |-> 0, db |-> db]
    ELSE [deleted_count |-> 1,
          db |-> WithColl(c, SubSeq(Coll(c), 1, i - 1)
                             \o SubSeq(Coll(c), i + 1, Len(Coll(c))))]

Max(S) == CHOOSE x \in S : \A y \in S : y <= x
Min(S) == CHOOSE x \in S : \A y \in S : x <= y

\* The sort left out: natural order.
Unsorted(docs, key, ties) == docs

RECURSIVE SortDescending(_, _, _)
\* cursor.sort(key, -1): the documents by key, greatest first.  The order of
\* documents with equal keys is the server's choice; `ties` is that choice.
SortDescending(docs, key, ties) ==
    IF Len(docs) = 0 THEN <<>>
    ELSE LET top == Max({docs[i][key].v : i \in 1..Len(docs)})
             at == {i \in 1..Len(docs) : docs[i][key].v = top}
             i == IF ties = "natural" THEN Min(at) ELSE Max(at)
         IN <<docs[i]>>
            \o SortDescending(SubSeq(docs, 1, i - 1) \o SubSeq(docs, i + 1, Len(docs)),
                              key, ties)

RECURSIVE Pow256(_)
Pow256(k) == IF k = 0 THEN 1 ELSE 256 * Pow256(k - 1)

\* The 12 bytes the driver writes for an ObjectId that holds fewer: the C
\* encoder copies 12 bytes from the start of the bytes object, which are the
\* bytes held, the zero byte that ends them and whatever memory follows.  n
\* is a number such 12 bytes write.
MayEncodeAs(o, n) ==
    IF o.size = OidHexLen \div 2 THEN n = o.v
    ELSE n \div Pow256((OidHexLen \div 2) - 1 - o.size) = 256 * o.v

\* The outcomes of sending ObjectId o in a filter on collection c: the key the
\* server looks up, or an error.  The server is not answering: an error.  An
\* ObjectId of 12 bytes: itself.  A shorter one: the pure-Python encoder
\* writes the bytes held, which the server refuses as malformed; the C
\* encoder writes 12 bytes that may be the key of a stored document
\* (MayEncodeAs) or of none.
Wire(o, c) ==
    IF connection = "unreachable" THEN {[error |-> TRUE, key |-> VNone]}
    ELSE IF o.size = OidHexLen \div 2 THEN {[error |-> FALSE, key |-> o]}
    ELSE LET stored == {Coll(c)[i]["_id"] : i \in 1..Len(Coll(c))}
             hits == {k \in stored : MayEncodeAs(o, k.v)}
         IN {[error |-> TRUE, key |-> VNone]}
            \cup {[error |-> FALSE, key |-> k] : k \in hits}
            \cup (IF o.size = (OidHexLen \div 2) - 1 /\ hits # {} THEN {}
                  ELSE {[error |-> FALSE, key |-> VNone]})

\* database.create_document: the model's fields and the creation time are
\* inserted under a fresh identifier; the identifier's text is returned.
create_document_doc(model, id, t) ==
    ("_id" :> VOid(id)) @@ ("created_at" :> VDateTime(t)) @@ model_dump(model)

\* database.get_documents: up to `limit` matching documents in natural order.
get_documents(c, filt, limit) == Limit(find(c, filt), limit)


\* ------------------------------------------------------------------ handlers

\* The identifier the database gives the first document inserted in a run;
\* identifiers are issued in sequence and never twice.
FirstId == HexNumber(<<"a", "0">>)

Call(op, c) == [op |-> op, coll |-> c]

NoRequest == [route |-> "none"]
NoResponse == [status |-> 0, body |-> ""]

\* No request is being handled.  A handler makes at most one storage call,
\* so handling requests one at a time loses no interleaving.
Idle == req = NoRequest

\* The observation of one handled request.
Reply(r, status, body, cs, docs) ==
    /\ req' = r
    /\ resp' = [status |-> status, body |-> body]
    /\ calls' = cs
    /\ fetched' = docs

\* FastAPI rejects a request that fails validation before the handler runs.
Unprocessable(r) ==
    /\ Reply(r, 422, "validation error", <<>>, <<>>)
    /\ UNCHANGED <<db, nextId, now, connection>>

\* An exception no handler catches: FastAPI answers 500.  cs are the storage
\* calls attempted before it.
ServerError(r, cs) == Reply(r, 500, "Internal Server Error", cs, <<>>)

\* The storage calls made through the handle by a request that makes call cs:
\* none when there is no handle (db is None: db[...] raises before any call).
Attempted(cs) == IF connection = "none" THEN <<>> ELSE cs

\* if x: for an Optional[str] parameter
Truthy(x) == x.t # "none" /\ Len(x.v) > 0

\* if not doc
not_found(found) == Len(found) = 0

\* The count check left out.
no_match_never(count) == FALSE

\* if res.matched_count == 0 / if res.deleted_count == 0
no_match(count) == count = 0

\* POST of a new document: the body is validated against the schema, then
\* create_document(collection, model) and {"id": new_id}.
Create(route, c, schema, body) ==
    LET r == [route |-> route, body |-> body] IN
    /\ WithinInputs(schema, body)
    /\ IF ~Valid(schema, body) THEN Unprocessable(r)
       ELSE IF connection # "connected"
       THEN /\ ServerError(r, Attempted(<<Call("insert_one", c)>>))
            /\ UNCHANGED <<db, nextId, now, connection>>
       ELSE /\ nextId < FirstId + MaxDocs
            /\ \E t \in {now, now + 1} :
                 /\ db' = WithColl(c, Append(Coll(c),
                              create_document_doc(Parse(schema, body), nextId, t)))
                 /\ nextId' = nextId + 1
                 /\ now' = t
                 /\ Reply(r, 200, [id |-> VStr(HexText(nextId, OidHexLen))],
                          <<Call("insert_one", c)>>, <<>>)
            /\ UNCHANGED connection

\* GET of a list: get_documents(collection, filt, limit), each projected.  A
\* pattern that does not compile is the server's error.
ListOf(r, c, filt, limit) ==
    LET docs == get_documents(c, filt, limit) IN
    /\ IF connection # "connected" \/ ~FilterValid(filt)
       THEN ServerError(r, Attempted(<<Call("find", c)>>))
       ELSE Reply(r, 200, [i \in 1..Len(docs) |-> to_public(docs[i])],
                  <<Call("find", c)>>, [i \in 1..Len(docs) |-> to_public_arg(docs[i])])
    /\ UNCHANGED <<db, nextId, now, connection>>

read_root ==
    /\ Idle
    /\ /\ Reply([route |-> "read_root"], 200, [message |-> "Readverse backend ready"],
                <<>>, <<>>)
       /\ UNCHANGED <<db, nextId, now, connection>>

\* The characters the diagnostic texts start with.
CheckMark == <<"U+2705">>
CrossMark == <<"U+274C">>
WarningSign == <<"U+26A0", "U+FE0F">>

\* "Set" behind a check mark if the variable is set and not empty, "Not Set"
\* behind a cross otherwise.
EnvStatus(set) ==
    IF set THEN CheckMark \o <<" ", "S", "e", "t">>
    ELSE CrossMark \o <<" ", "N", "o", "t", " ", "S", "e", "t">>

\* The characters of an exception's text that the diagnostic shows.
ErrorTextMax == 80

\* str(e)[:80]
ErrorText(e) == IF Len(e) <= ErrorTextMax THEN e ELSE SubSeq(e, 1, ErrorTextMax)

\* What the server's failures say: a short text and one of 81 characters.
ErrorTexts == {<<"d", "o", "w", "n">>, [i \in 1..(ErrorTextMax + 1) |-> "x"]}

\* GET /test.  url_set, name_set: whether DATABASE_URL and DATABASE_NAME are
\* set and not empty in the process environment when the request is handled.
test_database(url_set, name_set) ==
    /\ Idle
    /\ \E e \in IF connection = "unreachable" THEN ErrorTexts ELSE {<<>>} :
          /\ Reply([route |-> "test_database", url_set |-> url_set, name_set |-> name_set],
                   200,
                   [backend |-> CheckMark \o <<" ", "R", "u", "n", "n", "i", "n", "g">>,
                    database |->
                        IF connection = "none"
                        THEN CrossMark \o <<" ", "N", "o", "t", " ", "A", "v", "a", "i",
                                             "l", "a", "b", "l", "e">>
                        ELSE IF connection = "connected"
                        THEN CheckMark \o <<" ", "C", "o", "n", "n", "e", "c", "t", "e", "d">>
                        ELSE WarningSign \o <<" ">> \o ErrorText(e),
                    database_url |-> EnvStatus(url_set),
                    database_name |-> EnvStatus(name_set),
                    connection_status |->
                        IF connection = "none" THEN "Not Connected" ELSE "Connected",
                    collections |-> IF connection = "connected" THEN DOMAIN db ELSE {}],
                   Attempted(<<Call("list_collection_names", "")>>), <<>>)
          /\ UNCHANGED <<db, nextId, now, connection>>

create_user(user) ==
    /\ Idle
    /\ Create("create_user", "user", User, user)

UsersLimit == 100

list_users(handle) ==
    /\ Idle
    /\ ListOf([route |-> "list_users", handle |-> handle], "user",
              IF Truthy(handle) THEN "handle" :> Eq(handle) ELSE NoFilter, UsersLimit)

create_book(book) ==
    /\ Idle
    /\ Create("create_book", "book", Book, book)

BooksLimitDefault == 100
BooksLimitMin == 1
BooksLimitMax == 200

\* limit: int = Query(100, ge=1, le=200)
limit_accepted(limit) == limit >= BooksLimitMin /\ limit <= BooksLimitMax

list_books(kind, q, limit) ==
    /\ Idle
    /\ Truthy(q) =>
          /\ PatternWithinInputs(q.v)
          /\ \A i \in 1..Len(Coll("book")) :
                 Coll("book")[i]["title"].t = "str"
                     => FoldWithinInputs(Coll("book")[i]["title"].v)
    /\ LET r == [route |-> "list_books", kind |-> kind, q |-> q, limit |-> limit]
           n == IF limit.t = "none" THEN BooksLimitDefault ELSE limit.v
           filt == (IF Truthy(kind) THEN "kind" :> Eq(kind) ELSE NoFilter)
                   @@ (IF Truthy(q) THEN "title" :> Regex(q.v) ELSE NoFilter)
       IN IF ~limit_accepted(n) THEN Unprocessable(r)
          ELSE ListOf(r, "book", filt, n)

get_book(book_id) ==
    /\ Idle
    /\ LET r == [route |-> "get_book", id |-> book_id]
           o == oid(book_id)
           cs == <<Call("find_one", "book")>>
       IN /\ IF connection = "none" THEN ServerError(r, <<>>)
             ELSE IF ~o.ok THEN Reply(r, 400, "Invalid id", <<>>, <<>>)
             ELSE \E w \in Wire(o.value, "book") :
                     LET found == find("book", "_id" :> Eq(w.key))
                     IN IF w.error THEN ServerError(r, cs)
                        ELSE IF not_found(found)
                        THEN Reply(r, 404, "Book not found", cs, <<>>)
                        ELSE Reply(r, 200, to_public(found[1]), cs,
                                   <<to_public_arg(found[1])>>)
          /\ UNCHANGED <<db, nextId, now, connection>>

\* PATCH of a document: the non-null fields of the payload are $set.
Patch(route, c, schema, id_str, payload, missing) ==
    LET r == [route |-> route, id |-> id_str, body |-> payload]
        upd == exclude_none(Parse(schema, payload))
        o == oid(id_str)
        cs == <<Call("update_one", c)>>
    IN /\ WithinInputs(schema, payload)
       /\ IF ~Valid(schema, payload) THEN Unprocessable(r)
          ELSE /\ IF DOMAIN upd = {}
                  THEN Reply(r, 200, [updated |-> 0], <<>>, <<>>) /\ db' = db
                  ELSE IF connection = "none" THEN ServerError(r, <<>>) /\ db' = db
                  ELSE IF ~o.ok
                  THEN Reply(r, 400, "Invalid id", <<>>, <<>>) /\ db' = db
                  ELSE \E w \in Wire(o.value, c) :
                          LET res == update_one(c, "_id" :> Eq(w.key), Set(upd))
                          IN IF w.error THEN ServerError(r, cs) /\ db' = db
                             ELSE IF no_match(res.matched_count)
                             THEN Reply(r, 404, missing, cs, <<>>) /\ db' = db
                             ELSE /\ Reply(r, 200, [updated |-> res.modified_count],
                                           cs, <<>>)
                                  /\ db' = res.db
               /\ UNCHANGED <<nextId, now, connection>>

update_book(book_id, payload) ==
    /\ Idle
    /\ Patch("update_book", "book", BookUpdate, book_id, payload, "Book not found")

delete_book(book_id) ==
    /\ Idle
    /\ LET r == [route |-> "delete_book", id |-> book_id]
           o == oid(book_id)
           cs == <<Call("delete_one", "book")>>
       IN /\ IF connection = "none" THEN ServerError(r, <<>>) /\ db' = db
             ELSE IF ~o.ok
             THEN Reply(r, 400, "Invalid id", <<>>, <<>>) /\ db' = db
             ELSE \E w \in Wire(o.value, "book") :
                     LET res == delete_one("book", "_id" :> Eq(w.key))
                     IN IF w.error THEN ServerError(r, cs) /\ db' = db
                        ELSE IF no_match(res.deleted_count)
                        THEN Reply(r, 404, "Book not found", cs, <<>>) /\ db' = db
                        ELSE Reply(r, 200, [deleted |-> 1], cs, <<>>) /\ db' = res.db
          /\ UNCHANGED <<nextId, now, connection>>

create_shelf(shelf) ==
    /\ Idle
    /\ Create("create_shelf", "shelf", Shelf, shelf)

ShelvesLimit == 200

list_shelves(user_id) ==
    /\ Idle
    /\ ListOf([route |-> "list_shelves", user_id |-> user_id], "shelf",
              IF Truthy(user_id) THEN "user_id" :> Eq(user_id) ELSE NoFilter, ShelvesLimit)

\* book_id is a required query parameter.
shelf_add_book(shelf_id, book_id) ==
    /\ Idle
    /\ LET r == [route |-> "shelf_add_book", id |-> shelf_id, book_id |-> book_id]
           o == oid(shelf_id)
           cs == <<Call("update_one", "shelf")>>
       IN IF book_id.t # "str" THEN Unprocessable(r)
          ELSE /\ IF connection = "none" THEN ServerError(r, <<>>) /\ db' = db
                  ELSE IF ~o.ok
                  THEN Reply(r, 400, "Invalid id", <<>>, <<>>) /\ db' = db
                  ELSE \E w \in Wire(o.value, "shelf") :
                          LET res == update_one("shelf", "_id" :> Eq(w.key),
                                                AddToSet("book_ids", book_id.v))
                          IN IF w.error THEN ServerError(r, cs) /\ db' = db
                             ELSE IF no_match(res.matched_count)
                             THEN Reply(r, 404, "Shelf not found", cs, <<>>) /\ db' = db
                             ELSE Reply(r, 200, [ok |-> TRUE], cs, <<>>) /\ db' = res.db
               /\ UNCHANGED <<nextId, now, connection>>

create_progress(p) ==
    /\ Idle
    /\ Create("create_progress", "readingprogress", ReadingProgress, p)

ProgressLimit == 500

get_progress(user_id, book_id) ==
    /\ Idle
    /\ ListOf([route |-> "get_progress", user_id |-> user_id, book_id |-> book_id],
              "readingprogress",
              (IF Truthy(user_id) THEN "user_id" :> Eq(user_id) ELSE NoFilter)
              @@ (IF Truthy(book_id) THEN "book_id" :> Eq(book_id) ELSE NoFilter),
              ProgressLimit)

update_progress(progress_id, upd) ==
    /\ Idle
    /\ Patch("update_progress", "readingprogress", ProgressUpdate, progress_id, upd,
             "Progress not found")

create_review(r) ==
    /\ Idle
    /\ Create("create_review", "review", Review, r)

ReviewsLimit == 200

list_reviews(book_id) ==
    /\ Idle
    /\ ListOf([route |-> "list_reviews", book_id |-> book_id], "review",
              IF Truthy(book_id) THEN "book_id" :> Eq(book_id) ELSE NoFilter, ReviewsLimit)

create_quote(q) ==
    /\ Idle
    /\ Create("create_quote", "quote", Quote, q)

QuotesLimit == 200

list_quotes(user_id, book_id) ==
    /\ Idle
    /\ ListOf([route |-> "list_quotes", user_id |-> user_id, book_id |-> book_id], "quote",
              (IF Truthy(user_id) THEN "user_id" :> Eq(user_id) ELSE NoFilter)
              @@ (IF Truthy(book_id) THEN "book_id" :> Eq(book_id) ELSE NoFilter),
              QuotesLimit)

create_club(c) ==
    /\ Idle
    /\ Create("create_club", "club", Club, c)

ClubsLimit == 200

list_clubs ==
    /\ Idle
    /\ ListOf([route |-> "list_clubs"], "club", NoFilter, ClubsLimit)

create_post(p) ==
    /\ Idle
    /\ Create("create_post", "post", Post, p)

PostsLimit == 500

list_posts(club_id) ==
    /\ Idle
    /\ ListOf([route |-> "list_posts", club_id |-> club_id], "post",
              IF Truthy(club_id) THEN "club_id" :> Eq(club_id) ELSE NoFilter, PostsLimit)

RecommendationsLimit == 12

\* db["book"].find(filt).sort("created_at", -1).limit(12), each projected.
recommendations(genre, user_id) ==
    /\ Idle
    /\ \E ties \in {"natural", "reverse"} :
           LET r == [route |-> "recommendations", genre |-> genre, user_id |-> user_id]
               filt == IF Truthy(genre) THEN "genres" :> Eq(genre) ELSE NoFilter
               docs == Limit(SortDescending(find("book", filt), "created_at", ties),
                             RecommendationsLimit)
           IN /\ IF connection # "connected"
                 THEN ServerError(r, Attempted(<<Call("find", "book")>>))
                 ELSE Reply(r, 200, [i \in 1..Len(docs) |-> to_public(docs[i])],
                            <<Call("find", "book")>>,
                            [i \in 1..Len(docs) |-> to_public_arg(docs[i])])
              /\ UNCHANGED <<db, nextId, now, connection>>


\* ------------------------------------------------------------------ requests

\* The text of the identifier with number n.
IdText(n) == HexText(n, OidHexLen)

\* The response goes back to the client.
respond ==
    /\ ~Idle
    /\ req' = NoRequest
    /\ resp' = NoResponse
    /\ calls' = <<>>
    /\ fetched' = <<>>
    /\ UNCHANGED <<db, nextId, now, connection>>

\* The requests clients send: every route, with the bodies and parameters
\* of workload w.
Requests(w) ==
    \/ read_root
    \/ \E u \in BOOLEAN : \E n \in BOOLEAN : test_database(u, n)
    \/ \E b \in w.users : create_user(b)
    \/ \E h \in w.names : list_users(h)
    \/ \E b \in w.books : create_book(b)
    \/ \E a \in w.searches : list_books(a[1], a[2], a[3])
    \/ \E i \in w.ids : get_book(i)
    \/ \E i \in w.ids : \E b \in w.bookPatches : update_book(i, b)
    \/ \E i \in w.ids : delete_book(i)
    \/ \E b \in w.shelves : create_shelf(b)
    \/ \E u \in w.names : list_shelves(u)
    \/ \E i \in w.ids : \E b \in w.adds : shelf_add_book(i, b)
    \/ \E b \in w.progress : create_progress(b)
    \/ \E u \in w.names : get_progress(u, u)
    \/ \E i \in w.ids : \E b \in w.progressPatches : update_progress(i, b)
    \/ \E b \in w.reviews : create_review(b)
    \/ \E u \in w.names : list_reviews(u)
    \/ \E b \in w.quotes : create_quote(b)
    \/ \E u \in w.names : list_quotes(u, u)
    \/ \E b \in w.clubs : create_club(b)
    \/ list_clubs
    \/ \E b \in w.posts : create_post(b)
    \/ \E u \in w.names : list_posts(u)
    \/ \E g \in w.genres : recommendations(g, VNone)
    \/ respond

Dragon == <<"D", "r", "a", "g", "o", "n">>
Ocean == <<"O", "c", "e", "a", "n">>

UserAnn == [handle |-> VStr("ann"), email |-> VStr("ann@example.org")]
UserNoEmail == [handle |-> VStr("ann")]

BookA ==
    [title |-> VStr(Dragon), creator |-> VStr("Ursula"), kind |-> VStr("manga"),
     genres |-> VList(<<"fantasy">>), total_pages |-> VInt(1)]
BookB ==
    [title |-> VStr(Ocean), creator |-> VStr("Jules"), kind |-> VStr("book")]
BookNoPages == [BookA EXCEPT !.total_pages = VInt(0)]

ShelfA == [user_id |-> VStr("ann"), name |-> VStr("To Read")]
ShelfTwice ==
    [user_id |-> VStr("ann"), name |-> VStr("Favorites"),
     book_ids |-> VList(<<"b1", "b1">>)]
ShelfNoName == [user_id |-> VStr("ann")]

ProgressA == [user_id |-> VStr("ann"), book_id |-> VStr("b1")]
\* 2024-02-29 is a day of the calendar, 2023-02-29 is not.
ProgressStarted(year) ==
    [user_id |-> VStr("ann"), book_id |-> VStr("b1"),
     started_on |-> VStr(<<"2", "0", "2", year, "-", "0", "2", "-", "2", "9">>)]
ProgressPage(n) == [user_id |-> VStr("ann"), book_id |-> VStr("b1"), current_page |-> VInt(n)]
\* The current page given as a JSON string.
ProgressPageText(s) ==
    [user_id |-> VStr("ann"), book_id |-> VStr("b1"), current_page |-> VStr(s)]
ProgressPages(n) == [user_id |-> VStr("ann"), book_id |-> VStr("b1"), total_pages |-> VInt(n)]

ReviewRated(n) == [user_id |-> VStr("ann"), book_id |-> VStr("b1"), rating |-> VInt(n)]
\* The rating given as a JSON string.
ReviewText(s) == [user_id |-> VStr("ann"), book_id |-> VStr("b1"), rating |-> VStr(s)]

QuoteA == [user_id |-> VStr("ann"), book_id |-> VStr("b1"), text |-> VStr("so it goes")]
QuotePage(n) ==
    [user_id |-> VStr("ann"), book_id |-> VStr("b1"), text |-> VStr("so it goes"),
     page |-> VInt(n)]

ClubA == [name |-> VStr("readers"), owner_id |-> VStr("ann")]
ClubNoOwner == [name |-> VStr("readers")]

PostA == [club_id |-> VStr("c1"), user_id |-> VStr("ann"), content |-> VStr("hello")]
PostNoContent == [club_id |-> VStr("c1"), user_id |-> VStr("ann")]

NoFields == <<>>
OnlyNulls == [title |-> VNone, status |-> VNone, note |-> VStr("unrecognized")]
BookPatchA ==
    [total_pages |-> VInt(0), genres |-> VList(<<"scifi">>), cover_url |-> VNone]
BookPatchBad == [title |-> VInt(1)]
ProgressPatchA ==
    [current_page |-> VInt(-1), total_pages |-> VInt(0), status |-> VNone]
\* Numerals: "-01" is read as -1, "0-01" is refused.
ProgressPatchText ==
    [current_page |-> VStr(<<"-", "0", "1">>), total_pages |-> VInt(0)]
ProgressPatchBad == [current_page |-> VStr(<<"0", "-", "0", "1">>)]

\* A blank, a vertical tab and the 22 hexadecimal digits of 11 zero bytes.
BlankId ==
    [i \in 1..OidHexLen |-> IF i = 1 THEN " " ELSE IF i = 2 THEN "U+000B" ELSE "0"]

\* Identifier texts: those of the documents a run can create, one the
\* database never issues, one in upper case, one too short, one not
\* hexadecimal, one that starts with blanks.
IdTexts ==
    {IdText(n) : n \in FirstId..(FirstId + MaxDocs)}
    \cup {UpperText(IdText(FirstId)), Tail(IdText(FirstId)),
          [IdText(FirstId) EXCEPT ![1] = "g"], BlankId}

\* kind, q and limit of GET /books: q as literal text in the other case, as
\* a pattern with anchors, a dot and a group of alternatives, and as a
\* pattern that does not compile.
Searches ==
    {<<VNone, VNone, VNone>>, <<VStr("manga"), VNone, VInt(1)>>,
     <<VNone, VStr(<<"R", "A", "G">>), VInt(200)>>,
     <<VNone, VStr(<<"^", ".", "r", "(", "a", "|", "x", ")", "g", "o", "n", "$", "|", "q">>),
       VNone>>,
     <<VNone, VStr(<<"(">>), VInt(1)>>,
     <<VNone, VNone, VInt(0)>>, <<VNone, VNone, VInt(201)>>,
     <<VNone, VNone, VInt(1)>>, <<VStr(""), VStr(<<>>), VInt(2)>>}

\* Books, shelves and reading progress are created, patched and deleted; the
\* other creations are rejected.
Catalog ==
    [users |-> {UserNoEmail},
     books |-> {BookA, BookNoPages},
     shelves |-> {ShelfA, ShelfTwice},
     progress |-> {ProgressA, ProgressPage(-1)},
     reviews |-> {ReviewRated(6)},
     quotes |-> {QuotePage(0)},
     clubs |-> {ClubNoOwner},
     posts |-> {PostNoContent},
     names |-> {VNone},
     searches |-> Searches,
     ids |-> IdTexts,
     bookPatches |-> {NoFields, OnlyNulls, BookPatchA, BookPatchBad},
     progressPatches |-> {NoFields, OnlyNulls, ProgressPatchA, ProgressPatchText,
                         ProgressPatchBad},
     adds |-> {VStr("b1"), VNone},
     genres |-> {VNone, VStr("fantasy")}]

\* Documents of every collection are created and listed, with numeric
\* fields at, inside and outside their bounds.
Intake ==
    [users |-> {UserAnn, UserNoEmail},
     books |-> {BookA, BookNoPages},
     shelves |-> {ShelfA, ShelfNoName},
     progress |-> {ProgressA, ProgressPage(-1), ProgressPages(0),
                   ProgressPageText(<<"0", "-", "0">>),
                   ProgressPageText(<<"0", "-", "0", "0">>),
                   ProgressStarted("4"), ProgressStarted("3")},
     reviews |-> {ReviewRated(0), ReviewRated(1), ReviewRated(5), ReviewRated(6),
                  ReviewText(<<"U+00A0", "5", " ">>), ReviewText(<<"+", "0", "6">>),
                  ReviewText(<<"f", "i", "v", "e">>)},
     quotes |-> {QuotePage(1), QuotePage(0)},
     clubs |-> {ClubA, ClubNoOwner},
     posts |-> {PostA, PostNoContent},
     names |-> {VNone, VStr("ann")},
     searches |-> {<<VNone, VNone, VNone>>},
     ids |-> {IdText(FirstId), Tail(IdText(FirstId))},
     bookPatches |-> {NoFields},
     progressPatches |-> {NoFields},
     adds |-> {VStr("b1")},
     genres |-> {VNone}]

\* A catalog that already holds RecommendationsLimit books, created in pairs
\* within one clock reading, all but one of them fantasy.
SeedBook(i) ==
    create_document_doc(
        Parse(Book, IF i = 4 THEN [BookB EXCEPT !.kind = VStr("ebook")]
                    ELSE [BookA EXCEPT !.genres = VList(<<"fantasy", "epic">>)]),
        FirstId - RecommendationsLimit + (i - 1), (i - 1) \div 2)

SeedBooks == [i \in 1..RecommendationsLimit |-> SeedBook(i)]

\* Books are created, patched and deleted in a catalog large enough for the
\* recommendations to be cut; the other creations are rejected.
Shelved ==
    [users |-> {UserNoEmail},
     books |-> {BookA, BookB},
     shelves |-> {ShelfNoName},
     progress |-> {ProgressPage(-1)},
     reviews |-> {ReviewRated(6)},
     quotes |-> {QuotePage(0)},
     clubs |-> {ClubNoOwner},
     posts |-> {PostNoContent},
     names |-> {VNone},
     searches |-> {<<VNone, VNone, VNone>>},
     ids |-> {IdText(FirstId), IdText(FirstId - 1),
              IdText(FirstId - RecommendationsLimit)},
     bookPatches |-> {[genres |-> VList(<<"scifi">>)]},
     progressPatches |-> {NoFields},
     adds |-> {VStr("b1")},
     genres |-> {VNone, VStr(""), VStr("fantasy"), VStr("scifi")}]

\* The clock starts two seconds before midnight: its ticks carry into the
\* minute, the hour and the date of a creation time.
StartClock == 24 * 3600 - 2

Init ==
    /\ db = <<>>
    /\ nextId = FirstId
    /\ now = StartClock
    /\ connection = "connected"
    /\ req = NoRequest
    /\ resp = NoResponse
    /\ calls = <<>>
    /\ fetched = <<>>

Next == Requests(Catalog)

Spec == Init /\ [][Next]_vars

NextIntake == Requests(Intake)

SpecIntake == Init /\ [][NextIntake]_vars

InitShelved ==
    /\ db = ("book" :> SeedBooks)
    /\ nextId = FirstId
    /\ now = (RecommendationsLimit - 1) \div 2
    /\ connection = "connected"
    /\ req = NoRequest
    /\ resp = NoResponse
    /\ calls = <<>>
    /\ fetched = <<>>

NextShelved == Requests(Shelved)

SpecShelved == InitShelved /\ [][NextShelved]_vars

\* The process started without a database handle (db is None), or with a
\* handle to a server that does not answer.
InitOffline ==
    /\ db = <<>>
    /\ nextId = FirstId
    /\ now = 0
    /\ connection \in {"none", "unreachable"}
    /\ req = NoRequest
    /\ resp = NoResponse
    /\ calls = <<>>
    /\ fetched = <<>>

NextOffline == Requests(Catalog)

SpecOffline == InitOffline /\ [][NextOffline]_vars


\* ------------------------------------------------------------------ claims

\* The routes that take a document identifier in their path.
IdRoutes == {"get_book", "update_book", "delete_book", "shelf_add_book", "update_progress"}
PatchRoutes == {"update_book", "update_progress"}
ListRoutes ==
    {"list_users", "list_books", "list_shelves", "get_progress", "list_reviews",
     "list_quotes", "list_clubs", "list_posts", "recommendations"}

\* The collection a route works on.
RouteColl(route) ==
    CASE route \in {"create_book", "list_books", "get_book", "update_book",
                    "delete_book", "recommendations"} -> "book"
      [] route \in {"create_shelf", "list_shelves", "shelf_add_book"} -> "shelf"
      [] route \in {"create_progress", "get_progress", "update_progress"}
           -> "readingprogress"
      [] route \in {"create_user", "list_users"} -> "user"
      [] route \in {"create_review", "list_reviews"} -> "review"
      [] route \in {"create_quote", "list_quotes"} -> "quote"
      [] route \in {"create_club", "list_clubs"} -> "club"
      [] route \in {"create_post", "list_posts"} -> "post"

\* The fields a PATCH route recognizes.
PatchFields(route) ==
    IF route = "update_book" THEN {f.name : f \in BookUpdate}
    ELSE {f.name : f \in ProgressUpdate}

\* The documents of collection c in database d.
Docs(d, c) == IF c \in DOMAIN d THEN d[c] ELSE <<>>

\* No document of collection c in database d has identifier number n.
MissingId(d, c, n) == \A i \in 1..Len(Docs(d, c)) : Docs(d, c)[i]["_id"].v # n

\* The recognized fields a payload gives a non-null value.
Given(body, names) == {k \in (DOMAIN body) \cap names : body[k].t # "none"}

\* The identifiers of the persisted state layout: 24 hexadecimal digits.
WellFormedId(s) == Len(s) = OidHexLen /\ \A i \in 1..Len(s) : IsHexChar(s[i])

\* The body gives field k a JSON integer.
HasInt(body, k) == k \in DOMAIN body /\ body[k].t = "int"

\* The body gives field k a JSON string.
HasText(body, k) == k \in DOMAIN body /\ body[k].t = "str"

\* The integer a numeral writes, read off its characters: its decimal
\* digits in order, negated when it has a minus sign.
NumeralValue(s) ==
    LET n == DecNumber(SelectSeq(s, LAMBDA c : IsDecChar(c)))
    IN IF \E i \in 1..Len(s) : s[i] = "-" THEN 0 - n ELSE n

\* The integer a JSON number or a numeral gives.
IntGiven(x) == IF x.t = "int" THEN x.v ELSE NumeralValue(x.v)

\* The fields of a route's payload that hold integers.
IntFields == {"rating", "total_pages", "current_page", "page"}

Occurrences(list, x) == Cardinality({i \in 1..Len(list) : list[i] = x})

\* C1 (as stated): on every route with an identifier in its path, a request
\* that passes body validation and whose identifier is not well formed is
\* answered 400 without any storage call.
C1_InvalidIdIs400 ==
    (req.route \in IdRoutes /\ ~WellFormedId(req.id) /\ resp.status # 422)
        => (resp.status = 400 /\ calls = <<>>)

\* C2 (as stated): a request on an identifier route with a well-formed
\* identifier that matches no stored document is answered 404, whatever its
\* payload, and the database is left as it was.
C2_MissingIs404 ==
    [][(/\ req'.route \in IdRoutes
        /\ WellFormedId(req'.id)
        /\ MissingId(db, RouteColl(req'.route), HexNumber(req'.id))
        /\ resp'.status # 422)
       => (resp'.status = 404 /\ db' = db)]_vars

\* C2 (amended): the same, except for a PATCH whose payload gives no
\* recognized field a non-null value (answered {"updated": 0} without a
\* lookup); and an identifier that was issued and is no longer stored is
\* never stored again, so every later fetch, update or delete of a deleted
\* book falls under the first part.
C2_MissingIs404UnlessNoFields ==
    [][/\ (/\ req'.route \in IdRoutes
           /\ WellFormedId(req'.id)
           /\ MissingId(db, RouteColl(req'.route), HexNumber(req'.id))
           /\ resp'.status # 422
           /\ ~(/\ req'.route \in PatchRoutes
                /\ Given(req'.body, PatchFields(req'.route)) = {}))
          => (resp'.status = 404 /\ db' = db)
       /\ \A n \in (FirstId - RecommendationsLimit)..(nextId - 1) :
              MissingId(db, "book", n) => MissingId(db', "book", n)]_vars

\* A fetch of a book that was created and then deleted is answered 404.
C2_Witness ==
    /\ req.route = "get_book"
    /\ WellFormedId(req.id)
    /\ HexNumber(req.id) < nextId
    /\ HexNumber(req.id) >= FirstId
    /\ resp.status = 404

\* C3: a PATCH of a book or of a progress record whose payload gives no
\* recognized field a non-null value is answered 200 {"updated": 0}, makes no
\* storage call and leaves every stored document as it was.
C3_NoFieldsIsNoOp ==
    [][(/\ req'.route \in PatchRoutes
        /\ Given(req'.body, PatchFields(req'.route)) = {})
       => (/\ resp'.status = 200
           /\ resp'.body = [updated |-> 0]
           /\ calls' = <<>>
           /\ db' = db)]_vars

\* An existing book was patched with a payload of nulls and unknown fields.
C3_Witness ==
    /\ req.route = "update_book"
    /\ req.body = OnlyNulls
    /\ WellFormedId(req.id)
    /\ ~MissingId(db, "book", HexNumber(req.id))
    /\ resp.status = 200

\* C4 (as stated): after a successful add of book_id to a shelf, the shelf's
\* book_ids holds exactly one occurrence of book_id.  (A second add of the
\* same book_id finds it present and changes nothing, so this is the state
\* after two adds as well.)
C4_AddedExactlyOnce ==
    (req.route = "shelf_add_book" /\ resp.status = 200 /\ WellFormedId(req.id))
        => \A i \in 1..Len(Coll("shelf")) :
              Coll("shelf")[i]["_id"].v = HexNumber(req.id)
                  => Occurrences(Coll("shelf")[i]["book_ids"].v, req.book_id.v) = 1

\* C5 (as stated): GET /books with a limit outside 1..200 is answered 400
\* without a storage call; with a limit in 1..200 it succeeds with at most
\* limit books; with no limit it succeeds with at most 100.
C5_LimitIs400OrSucceeds ==
    req.route = "list_books"
        => IF req.limit.t = "int" /\ (req.limit.v < 1 \/ req.limit.v > 200)
           THEN resp.status = 400 /\ calls = <<>>
           ELSE /\ resp.status = 200
                /\ Len(resp.body) <= (IF req.limit.t = "int" THEN req.limit.v ELSE 100)


\* The documents a response carries: one for a fetch, a list otherwise.
ResponseDocs == IF req.route = "get_book" THEN <<resp.body>> ELSE resp.body

\* s reads YYYY-MM-DDTHH:MM:SS, a second of a day of the calendar.
IsIsoText(s) ==
    /\ Len(s) = 19
    /\ s[5] = "-" /\ s[8] = "-" /\ s[11] = "T" /\ s[14] = ":" /\ s[17] = ":"
    /\ \A i \in (1..19) \ {5, 8, 11, 14, 17} : IsDecChar(s[i])
    /\ DecNumber(SubSeq(s, 1, 4)) >= 2024
    /\ DecNumber(SubSeq(s, 6, 7)) \in 1..12
    /\ DecNumber(SubSeq(s, 9, 10))
          \in 1..DaysInMonth(DecNumber(SubSeq(s, 1, 4)), DecNumber(SubSeq(s, 6, 7)))
    /\ DecNumber(SubSeq(s, 12, 13)) < 24
    /\ DecNumber(SubSeq(s, 15, 16)) < 60
    /\ DecNumber(SubSeq(s, 18, 19)) < 60

RECURSIVE DaysBeforeYear(_)
\* The days from 2024-01-01 to the first day of year y.
DaysBeforeYear(y) ==
    IF y <= 2024 THEN 0
    ELSE DaysBeforeYear(y - 1) + (IF IsLeapYear(y - 1) THEN 366 ELSE 365)

RECURSIVE DaysBeforeMonth(_, _)
\* The days from the first day of year y to the first day of its month m.
DaysBeforeMonth(y, m) ==
    IF m = 1 THEN 0 ELSE DaysBeforeMonth(y, m - 1) + DaysInMonth(y, m - 1)

\* The instant an ISO-8601 text names, in seconds after 2024-01-01T00:00:00.
IsoInstant(s) ==
    LET y == DecNumber(SubSeq(s, 1, 4))
        m == DecNumber(SubSeq(s, 6, 7))
        d == DecNumber(SubSeq(s, 9, 10))
    IN 86400 * (DaysBeforeYear(y) + DaysBeforeMonth(y, m) + d - 1)
           + 3600 * DecNumber(SubSeq(s, 12, 13))
           + 60 * DecNumber(SubSeq(s, 15, 16)) + DecNumber(SubSeq(s, 18, 19))

\* out is the public form of the stored document d.
PublicFormOf(out, d) ==
    /\ DOMAIN out = ((DOMAIN d) \ {"_id"}) \cup {"id"}
    /\ out["id"].t = "str"
    /\ WellFormedId(out["id"].v)
    /\ out["id"].v = LowerText(out["id"].v)
    /\ HexNumber(out["id"].v) = d["_id"].v
    /\ \A k \in (DOMAIN d) \ {"_id"} :
          IF d[k].t = "datetime"
          THEN /\ out[k].t = "str"
               /\ IsIsoText(out[k].v)
               /\ IsoInstant(out[k].v) = d[k].v
          ELSE IF d[k].t = "date"
          THEN /\ out[k].t = "str"
               /\ DateText(out[k].v).ok
               /\ DateText(out[k].v).v = d[k].v
          ELSE out[k] = d[k]

\* C6: every document of a list or single-document response is the public
\* form of a stored document of the route's collection: `id` is the text of
\* its primary key, there is no `_id`, every date/time field is its ISO-8601
\* text and every other field is as stored; projecting the response document
\* again changes nothing; and the document the handler fetched is still the
\* stored one when the handler returns.
C6_PublicDocuments ==
    (req.route \in ListRoutes \cup {"get_book"} /\ resp.status = 200)
        => /\ Len(fetched) = Len(ResponseDocs)
           /\ \A i \in 1..Len(fetched) :
                 /\ \E j \in 1..Len(Coll(RouteColl(req.route))) :
                        /\ Coll(RouteColl(req.route))[j]["_id"] = fetched[i]["_id"]
                        /\ Coll(RouteColl(req.route))[j] = fetched[i]
                 /\ PublicFormOf(ResponseDocs[i], fetched[i])
                 /\ to_public(ResponseDocs[i]) = ResponseDocs[i]

\* A list of two progress records was returned, one of them with the day it
\* was started on.
C6_Witness ==
    /\ req.route = "get_progress"
    /\ resp.status = 200
    /\ Len(resp.body) = 2
    /\ \E i \in 1..2 : resp.body[i]["started_on"].t = "str"

\* The creation routes.
CreateRoutes ==
    {"create_user", "create_book", "create_shelf", "create_progress",
     "create_review", "create_quote", "create_club", "create_post"}

\* Integer n is inside the bound the creation schemas declare for field k.
InBound(k, n) ==
    CASE k = "rating" -> n >= 1 /\ n <= 5
      [] k = "current_page" -> n >= 0
      [] k \in {"total_pages", "page"} -> n >= 1

\* A creation body with a JSON integer outside the bound its schema declares.
OutOfBounds(route, body) ==
    \/ route = "create_review" /\ HasInt(body, "rating")
       /\ ~InBound("rating", body["rating"].v)
    \/ route \in {"create_book", "create_progress"} /\ HasInt(body, "total_pages")
       /\ ~InBound("total_pages", body["total_pages"].v)
    \/ route = "create_progress" /\ HasInt(body, "current_page")
       /\ ~InBound("current_page", body["current_page"].v)
    \/ route = "create_quote" /\ HasInt(body, "page") /\ ~InBound("page", body["page"].v)

\* C7: a creation whose body gives an integer outside its bound is answered
\* 422 with no storage call and no document added; a review with its
\* required fields and an integer rating in 1..5 is stored with that rating;
\* and whatever a creation stores, every bounded field of the new document
\* is null or an integer inside its bound, the integer a numeral writes when
\* the body gave a numeral.
C7_BoundsAtCreation ==
    [][/\ OutOfBounds(req'.route, req'.body)
          => (resp'.status = 422 /\ calls' = <<>> /\ db' = db)
       /\ (/\ req'.route = "create_review"
           /\ {"user_id", "book_id"} \subseteq DOMAIN req'.body
           /\ HasInt(req'.body, "rating")
           /\ InBound("rating", req'.body["rating"].v))
          => (/\ resp'.status = 200
              /\ Len(Docs(db', "review")) = Len(Docs(db, "review")) + 1
              /\ Docs(db', "review")[Len(Docs(db', "review"))]["rating"]
                    = req'.body["rating"])
       /\ (req'.route \in CreateRoutes /\ db' # db)
          => LET c == RouteColl(req'.route)
                 new == Docs(db', c)[Len(Docs(db', c))]
             IN /\ Len(Docs(db', c)) = Len(Docs(db, c)) + 1
                /\ \A k \in IntFields \cap DOMAIN new :
                      /\ new[k].t \in {"none", "int"}
                      /\ new[k].t = "int" => InBound(k, new[k].v)
                      /\ HasText(req'.body, k)
                            => new[k] = VInt(NumeralValue(req'.body[k].v))]_vars

\* A review rated 6 was rejected while reviews rated 1 and 5 are stored.
C7_Witness ==
    /\ req.route = "create_review"
    /\ req.body["rating"] = VInt(6)
    /\ resp.status = 422
    /\ \E i \in 1..Len(Coll("review")) : Coll("review")[i]["rating"] = VInt(5)
    /\ \E i \in 1..Len(Coll("review")) : Coll("review")[i]["rating"] = VInt(1)

\* The value a payload gives a field: the integer a numeral writes when an
\* integer field is given a JSON string, the JSON value otherwise.
PayloadValue(k, x) ==
    IF k \in IntFields /\ x.t = "str" THEN VInt(NumeralValue(x.v)) ELSE x

\* C8 (as stated): a PATCH of an existing document that is answered 200 and
\* whose payload has some recognized field leaves the document with the
\* payload's value in every recognized field of the payload, null included.
C8_PatchStoresPayload ==
    [][(/\ req'.route \in PatchRoutes
        /\ resp'.status = 200
        /\ WellFormedId(req'.id)
        /\ ~MissingId(db, RouteColl(req'.route), HexNumber(req'.id))
        /\ (DOMAIN req'.body) \cap PatchFields(req'.route) # {})
       => \A i \in 1..Len(Docs(db', RouteColl(req'.route))) :
             Docs(db', RouteColl(req'.route))[i]["_id"].v = HexNumber(req'.id)
                 => \A k \in (DOMAIN req'.body) \cap PatchFields(req'.route) :
                       /\ k \in DOMAIN Docs(db', RouteColl(req'.route))[i]
                       /\ Docs(db', RouteColl(req'.route))[i][k]
                             = PayloadValue(k, req'.body[k])]_vars

\* C8 (amended): a PATCH that gives some recognized field a non-null value
\* and is answered 200 leaves the addressed document with the payload's
\* value in every such field and its previous value in every other field,
\* those the payload gives as null included, and changes no other document
\* of any collection.
C8_PatchMerges ==
    [][(/\ req'.route \in PatchRoutes
        /\ resp'.status = 200
        /\ WellFormedId(req'.id)
        /\ Given(req'.body, PatchFields(req'.route)) # {})
       => LET c == RouteColl(req'.route)
              n == HexNumber(req'.id)
              given == Given(req'.body, PatchFields(req'.route))
          IN /\ DOMAIN db' = DOMAIN db
             /\ \A k \in (DOMAIN db) \ {c} : db'[k] = db[k]
             /\ Len(Docs(db', c)) = Len(Docs(db, c))
             /\ ~MissingId(db, c, n)
             /\ \A i \in 1..Len(Docs(db, c)) :
                   IF Docs(db, c)[i]["_id"].v = n
                   THEN /\ DOMAIN Docs(db', c)[i] = (DOMAIN Docs(db, c)[i]) \cup given
                        /\ \A k \in DOMAIN Docs(db', c)[i] :
                              Docs(db', c)[i][k]
                                 = IF k \in given THEN PayloadValue(k, req'.body[k])
                                   ELSE Docs(db, c)[i][k]
                   ELSE Docs(db', c)[i] = Docs(db, c)[i]]_vars

\* The second of two stored books was patched with a payload that gives
\* total_pages and genres values and cover_url as null, and changed.
C8_Witness ==
    /\ req.route = "update_book"
    /\ req.body = BookPatchA
    /\ resp.status = 200
    /\ resp.body = [updated |-> 1]
    /\ Len(Coll("book")) = 2
    /\ Coll("book")[2]["_id"].v = HexNumber(req.id)
    /\ Coll("book")[2]["total_pages"] = VInt(0)
    /\ Coll("book")[1]["total_pages"] # VInt(0)

\* C9: the recommendations are at most 12 stored books, all those matching
\* when fewer match; with a non-empty genre each has that genre in its
\* genres, without one any book matches; they are in descending order of
\* creation time, and no matching book left out was created later than one
\* returned.  The response is the public form of these books, in this order.
C9_Recommendations ==
    req.route = "recommendations"
        => LET books == Coll("book")
               wanted == {j \in 1..Len(books) :
                            Truthy(req.genre)
                                => \E g \in 1..Len(books[j]["genres"].v) :
                                       books[j]["genres"].v[g] = req.genre.v}
               chosen == {j \in wanted : \E i \in 1..Len(fetched) : fetched[i] = books[j]}
           IN /\ resp.status = 200
              /\ Len(resp.body) <= 12
              /\ Len(resp.body) = Len(fetched)
              /\ Len(fetched) = IF Cardinality(wanted) < 12 THEN Cardinality(wanted) ELSE 12
              /\ Cardinality(chosen) = Len(fetched)
              /\ \A i \in 1..Len(fetched) :
                    /\ \E j \in wanted : books[j] = fetched[i]
                    /\ HexNumber(resp.body[i]["id"].v) = fetched[i]["_id"].v
              /\ \A i \in 1..(Len(fetched) - 1) :
                    fetched[i]["created_at"].v >= fetched[i + 1]["created_at"].v
              /\ \A j \in wanted \ chosen : \A i \in 1..Len(fetched) :
                    fetched[i]["created_at"].v >= books[j]["created_at"].v

\* More than 12 books match and 12 were returned, the newest first.
C9_Witness ==
    /\ req.route = "recommendations"
    /\ Truthy(req.genre)
    /\ Len(resp.body) = 12
    /\ Cardinality({j \in 1..Len(Coll("book")) :
          \E g \in 1..Len(Coll("book")[j]["genres"].v) :
              Coll("book")[j]["genres"].v[g] = req.genre.v}) > 12
    /\ fetched[1]["_id"].v >= FirstId

\* The payload's recognized fields are null or JSON values of their declared
\* type.
WellTyped(body, schema) ==
    \A f \in schema : f.name \in DOMAIN body => body[f.name].t \in {"none", f.type}

\* C10: a PATCH of an existing book or progress record whose payload is well
\* typed is answered 200 and stores whatever integer the payload gives for
\* current_page or total_pages, inside the creation bound or not; a progress
\* record with a negative current_page is rejected at creation.
C10_NoBoundsOnPatch ==
    [][/\ (/\ req'.route \in PatchRoutes
           /\ WellFormedId(req'.id)
           /\ ~MissingId(db, RouteColl(req'.route), HexNumber(req'.id))
           /\ WellTyped(req'.body, IF req'.route = "update_book" THEN BookUpdate
                                   ELSE ProgressUpdate)
           /\ \E k \in PatchFields(req'.route) \cap {"current_page", "total_pages"} :
                 HasInt(req'.body, k))
          => /\ resp'.status = 200
             /\ \A k \in PatchFields(req'.route) \cap {"current_page", "total_pages"} :
                   HasInt(req'.body, k)
                       => \E i \in 1..Len(Docs(db', RouteColl(req'.route))) :
                             /\ Docs(db', RouteColl(req'.route))[i]["_id"].v
                                   = HexNumber(req'.id)
                             /\ Docs(db', RouteColl(req'.route))[i][k] = req'.body[k]
       /\ (req'.route = "create_progress" /\ HasInt(req'.body, "current_page")
           /\ req'.body["current_page"].v < 0)
          => (resp'.status = 422 /\ db' = db)]_vars

\* A stored progress record holds a negative current_page and a total_pages
\* of 0 after a PATCH.
C10_Witness ==
    /\ req.route = "update_progress"
    /\ req.body = ProgressPatchA
    /\ resp.status = 200
    /\ \E i \in 1..Len(Coll("readingprogress")) :
          /\ Coll("readingprogress")[i]["_id"].v = HexNumber(req.id)
          /\ Coll("readingprogress")[i]["current_page"] = VInt(-1)
          /\ Coll("readingprogress")[i]["total_pages"] = VInt(0)

====
